---- MODULE Spec2Model ----
(***************************************************************************)
(* ProviderManager (src/components/ProviderManager.tsx): a react-hook-form *)
(* form over a list of providers, validated by a zod schema, with a JSON   *)
(* importer (handleImport) and a one-line JSON generator (onSubmit).       *)
(*                                                                         *)
(* JSON text is a sequence of lexical tokens, so that JSON.parse and       *)
(* JSON.stringify are real conversions: whitespace, key order, unknown and *)
(* duplicate keys exist in the text and are lost or normalised exactly as  *)
(* the two functions and the schema lose or normalise them.                *)
(* A JavaScript value of unknown shape is a tagged record [t, v]; the      *)
(* validated form values are plain records.  A key whose value is          *)
(* undefined is modelled as an absent key (JSON.stringify and z.optional() *)
(* treat the two alike).                                                   *)
(***************************************************************************)
EXTENDS Integers, Sequences, FiniteSets, TLC

VARIABLES
    providers,     \* form values: form.getValues().providers
    outputJson,    \* useState("") outputJson, a JSON text
    importJson,    \* useState("") importJson, a JSON text
    toast,         \* title of the latest toast shown ("" before any)
    submitErrors,  \* the issues the resolver gave the latest handleSubmit
    lastOp,        \* the handler that ran last ("" before any)
    steps          \* number of handlers run so far

vars == <<providers, outputJson, importJson, toast, submitErrors, lastOp, steps>>

-----------------------------------------------------------------------------
(* Bounds of the exploration *)

MaxProviders == 2
MaxModels == 2
MaxSteps == 4

-----------------------------------------------------------------------------
(* JSON text *)

Tok(k) == [k |-> k, s |-> ""]
Str(s) == [k |-> "str", s |-> s]
Ws == Tok("ws")

EmptyText == << >>

\* String.prototype.trim() leaves nothing
IsBlank(text) == \A i \in 1..Len(text) : text[i].k = "ws"

RECURSIVE SkipWs(_, _)
SkipWs(text, i) ==
    IF i <= Len(text) /\ text[i].k = "ws" THEN SkipWs(text, i + 1) ELSE i

StripWs(text) == SelectSeq(text, LAMBDA t : t.k # "ws")

JsString(s) == [t |-> "string", v |-> s]
JsBoolean(b) == [t |-> "boolean", v |-> b]
JsNull == [t |-> "null", v |-> {}]
JsArray(seq) == [t |-> "array", v |-> seq]
JsObject(f) == [t |-> "object", v |-> f]

ParseFail(i) == [ok |-> FALSE, value |-> JsNull, next |-> i]
ParseOk(val, i) == [ok |-> TRUE, value |-> val, next |-> i]

RECURSIVE ParseValue(_, _), ParseElements(_, _, _), ParseMembers(_, _, _)

\* a JSON value starting at or after position i
ParseValue(text, i) ==
    LET j == SkipWs(text, i) IN
    IF j > Len(text) THEN ParseFail(j)
    ELSE LET k == text[j].k IN
         CASE k = "str" -> ParseOk(JsString(text[j].s), j + 1)
           [] k = "true" -> ParseOk(JsBoolean(TRUE), j + 1)
           [] k = "false" -> ParseOk(JsBoolean(FALSE), j + 1)
           [] k = "null" -> ParseOk(JsNull, j + 1)
           [] k = "[" ->
                LET n == SkipWs(text, j + 1) IN
                IF n <= Len(text) /\ text[n].k = "]"
                THEN ParseOk(JsArray(<< >>), n + 1)
                ELSE ParseElements(text, j + 1, << >>)
           [] k = "{" ->
                LET n == SkipWs(text, j + 1) IN
                IF n <= Len(text) /\ text[n].k = "}"
                THEN ParseOk(JsObject(<< >>), n + 1)
                ELSE ParseMembers(text, j + 1, << >>)
           [] OTHER -> ParseFail(j)

\* the elements of an array after "[" or ",", up to and including "]"
ParseElements(text, i, acc) ==
    LET r == ParseValue(text, i) IN
    IF ~r.ok THEN r
    ELSE LET j == SkipWs(text, r.next) IN
         IF j > Len(text) THEN ParseFail(j)
         ELSE IF text[j].k = "," THEN ParseElements(text, j + 1, Append(acc, r.value))
         ELSE IF text[j].k = "]" THEN ParseOk(JsArray(Append(acc, r.value)), j + 1)
         ELSE ParseFail(j)

\* the members of an object after "{" or ",", up to and including "}";
\* a repeated key keeps its last value
ParseMembers(text, i, acc) ==
    LET j == SkipWs(text, i) IN
    IF j > Len(text) \/ text[j].k # "str" THEN ParseFail(j)
    ELSE LET c == SkipWs(text, j + 1) IN
         IF c > Len(text) \/ text[c].k # ":" THEN ParseFail(c)
         ELSE LET r == ParseValue(text, c + 1) IN
              IF ~r.ok THEN r
              ELSE LET e == SkipWs(text, r.next)
                       obj == (text[j].s :> r.value) @@ acc
                   IN IF e > Len(text) THEN ParseFail(e)
                      ELSE IF text[e].k = "," THEN ParseMembers(text, e + 1, obj)
                      ELSE IF text[e].k = "}" THEN ParseOk(JsObject(obj), e + 1)
                      ELSE ParseFail(e)

\* JSON.parse: ok = FALSE stands for the SyntaxError it throws
JSONparse(text) ==
    LET r == ParseValue(text, 1) IN
    IF r.ok /\ SkipWs(text, r.next) > Len(text) THEN r ELSE ParseFail(r.next)

RECURSIVE JoinComma(_)
JoinComma(texts) ==
    IF Len(texts) = 0 THEN << >>
    ELSE IF Len(texts) = 1 THEN texts[1]
    ELSE texts[1] \o <<Tok(",")>> \o JoinComma(Tail(texts))

Member(key, text) == <<Str(key), Tok(":")>> \o text

HasBaseUrl(p) == "baseUrl" \in DOMAIN p

StringifyModel(m) ==
    <<Tok("{")>>
    \o JoinComma(<< Member("apiName", <<Str(m.apiName)>>),
                    Member("uiName", <<Str(m.uiName)>>),
                    Member("supportsTools",
                           <<Tok(IF m.supportsTools THEN "true" ELSE "false")>>) >>)
    \o <<Tok("}")>>

StringifyModels(ms) ==
    <<Tok("[")>> \o JoinComma([j \in 1..Len(ms) |-> StringifyModel(ms[j])]) \o <<Tok("]")>>

StringifyProvider(p) ==
    <<Tok("{")>>
    \o JoinComma(<< Member("provider", <<Str(p.provider)>>),
                    Member("apiKeyEnvVar", <<Str(p.apiKeyEnvVar)>>) >>
                 \o (IF HasBaseUrl(p) THEN << Member("baseUrl", <<Str(p.baseUrl)>>) >>
                     ELSE << >>)
                 \o << Member("models", StringifyModels(p.models)) >>)
    \o <<Tok("}")>>

\* JSON.stringify(data.providers): one line, no whitespace, keys in insertion
\* order, undefined members left out
JSONstringify(ps) ==
    <<Tok("[")>> \o JoinComma([i \in 1..Len(ps) |-> StringifyProvider(ps[i])]) \o <<Tok("]")>>

-----------------------------------------------------------------------------
(* The zod schemas *)

\* One ZodIssue: the path as provider index, model index (0-based, -1 where
\* the path has none) and key ("" where the path ends at an index).
Issue(pi, mi, field, message) ==
    [provider |-> pi, model |-> mi, field |-> field, message |-> message]

\* z.string().url() accepts what new URL() accepts
WellFormedUrls == {"https://api.groq.com/openai/v1", "https://api.openai.com/v1"}
IsUrl(s) == s \in WellFormedUrls

\* z.string().min(1, message) at key `key` of object obj
RequiredStringIssues(obj, key, message, pi, mi) ==
    IF key \notin DOMAIN obj THEN {Issue(pi, mi, key, "Required")}
    ELSE IF obj[key].t # "string" THEN {Issue(pi, mi, key, "Expected string")}
    ELSE IF obj[key].v = "" THEN {Issue(pi, mi, key, message)}
    ELSE {}

\* z.boolean() at key `key` of object obj
BooleanIssues(obj, key, pi, mi) ==
    IF key \notin DOMAIN obj THEN {Issue(pi, mi, key, "Required")}
    ELSE IF obj[key].t # "boolean" THEN {Issue(pi, mi, key, "Expected boolean")}
    ELSE {}

\* ModelSchema
ModelIssues(val, pi, mi) ==
    IF val.t # "object" THEN {Issue(pi, mi, "", "Expected object")}
    ELSE RequiredStringIssues(val.v, "apiName", "API Name is required.", pi, mi)
         \cup RequiredStringIssues(val.v, "uiName", "UI Name is required.", pi, mi)
         \cup BooleanIssues(val.v, "supportsTools", pi, mi)

\* baseUrl without .or(z.literal("")): the empty string is not a URL
BaseUrlIssuesNoLiteral(obj, pi) ==
    IF "baseUrl" \notin DOMAIN obj THEN {}
    ELSE IF obj["baseUrl"].t # "string" THEN {Issue(pi, -1, "baseUrl", "Invalid input")}
    ELSE IF IsUrl(obj["baseUrl"].v) THEN {}
    ELSE {Issue(pi, -1, "baseUrl", "Invalid input")}

\* baseUrl: z.string().url("Must be a valid URL.").optional().or(z.literal(""))
BaseUrlIssues(obj, pi) ==
    IF "baseUrl" \notin DOMAIN obj THEN {}
    ELSE IF obj["baseUrl"].t # "string" THEN {Issue(pi, -1, "baseUrl", "Invalid input")}
    ELSE IF IsUrl(obj["baseUrl"].v) \/ obj["baseUrl"].v = "" THEN {}
    ELSE {Issue(pi, -1, "baseUrl", "Invalid input")}

\* models without .min(1, ...)
ModelsIssuesNoMin(obj, pi) ==
    IF "models" \notin DOMAIN obj THEN {Issue(pi, -1, "models", "Required")}
    ELSE IF obj["models"].t # "array" THEN {Issue(pi, -1, "models", "Expected array")}
    ELSE LET ms == obj["models"].v IN
         UNION {ModelIssues(ms[j], pi, j - 1) : j \in 1..Len(ms)}

\* models: z.array(ModelSchema).min(1, "At least one model is required.")
ModelsIssues(obj, pi) ==
    IF "models" \notin DOMAIN obj THEN {Issue(pi, -1, "models", "Required")}
    ELSE IF obj["models"].t # "array" THEN {Issue(pi, -1, "models", "Expected array")}
    ELSE LET ms == obj["models"].v IN
         (IF Len(ms) < 1
          THEN {Issue(pi, -1, "models", "At least one model is required.")}
          ELSE {})
         \cup UNION {ModelIssues(ms[j], pi, j - 1) : j \in 1..Len(ms)}

\* ProviderSchema
ProviderIssues(val, pi) ==
    IF val.t # "object" THEN {Issue(pi, -1, "", "Expected object")}
    ELSE RequiredStringIssues(val.v, "provider", "Provider name is required.", pi, -1)
         \cup RequiredStringIssues(val.v, "apiKeyEnvVar", "API Key Env Var is required.", pi, -1)
         \cup BaseUrlIssues(val.v, pi)
         \cup ModelsIssues(val.v, pi)

\* ProvidersListSchema with a .min(1) on the list
ProvidersListIssuesNonEmpty(val) ==
    IF val.t # "array" THEN {Issue(-1, -1, "", "Expected array")}
    ELSE (IF Len(val.v) < 1 THEN {Issue(-1, -1, "", "At least one provider is required.")}
          ELSE {})
         \cup UNION {ProviderIssues(val.v[i], i - 1) : i \in 1..Len(val.v)}

\* ProvidersListSchema = z.array(ProviderSchema)
ProvidersListIssues(val) ==
    IF val.t # "array" THEN {Issue(-1, -1, "", "Expected array")}
    ELSE UNION {ProviderIssues(val.v[i], i - 1) : i \in 1..Len(val.v)}

\* The parsed output: the schema's keys in the schema's order, unknown keys
\* stripped, an absent optional key left absent.
ModelData(o) ==
    [apiName |-> o["apiName"].v, uiName |-> o["uiName"].v,
     supportsTools |-> o["supportsTools"].v]

ModelsData(ms) == [j \in 1..Len(ms) |-> ModelData(ms[j].v)]

ProviderData(o) ==
    IF "baseUrl" \in DOMAIN o
    THEN [provider |-> o["provider"].v, apiKeyEnvVar |-> o["apiKeyEnvVar"].v,
          baseUrl |-> o["baseUrl"].v, models |-> ModelsData(o["models"].v)]
    ELSE [provider |-> o["provider"].v, apiKeyEnvVar |-> o["apiKeyEnvVar"].v,
          models |-> ModelsData(o["models"].v)]

\* ProvidersListSchema.safeParse(val)
SafeParse(val) ==
    LET issues == ProvidersListIssues(val) IN
    [success |-> issues = {},
     issues |-> issues,
     data |-> IF issues = {} THEN [i \in 1..Len(val.v) |-> ProviderData(val.v[i].v)]
              ELSE << >>]

\* the form values as the resolver receives them
UnknownModel(m) ==
    JsObject([apiName |-> JsString(m.apiName), uiName |-> JsString(m.uiName),
              supportsTools |-> JsBoolean(m.supportsTools)])

UnknownProvider(p) ==
    LET ms == JsArray([j \in 1..Len(p.models) |-> UnknownModel(p.models[j])]) IN
    JsObject(IF HasBaseUrl(p)
             THEN [provider |-> JsString(p.provider),
                   apiKeyEnvVar |-> JsString(p.apiKeyEnvVar),
                   baseUrl |-> JsString(p.baseUrl), models |-> ms]
             ELSE [provider |-> JsString(p.provider),
                   apiKeyEnvVar |-> JsString(p.apiKeyEnvVar), models |-> ms])

\* zodResolver(FormSchema) applied to the form values
Resolver(ps) == SafeParse(JsArray([i \in 1..Len(ps) |-> UnknownProvider(ps[i])]))

-----------------------------------------------------------------------------
(* Texts the user may paste into the import box *)

Obj(members) == <<Tok("{")>> \o JoinComma(members) \o <<Tok("}")>>
Arr(elements) == <<Tok("[")>> \o JoinComma(elements) \o <<Tok("]")>>
StrMember(key, s) == Member(key, <<Str(s)>>)

LlamaModelText ==
    Obj(<< StrMember("apiName", "llama3-8b-8192"), StrMember("uiName", "Llama 3 8B"),
           Member("supportsTools", <<Tok("true")>>) >>)

Gpt4ModelText ==
    Obj(<< StrMember("apiName", "gpt-4o"), StrMember("uiName", "GPT-4o"),
           Member("supportsTools", <<Tok("false")>>) >>)

GroqProviderText ==
    Obj(<< StrMember("provider", "Groq"), StrMember("apiKeyEnvVar", "GROQ_API_KEY"),
           StrMember("baseUrl", "https://api.groq.com/openai/v1"),
           Member("models", Arr(<<LlamaModelText>>)) >>)

\* [{"provider":"Groq",...,"supportsTools":true}]}]
GroqText == Arr(<<GroqProviderText>>)

\* the same with blanks around the brackets: [ {...} ]
GroqSpacedText == <<Tok("["), Ws>> \o GroqProviderText \o <<Ws, Tok("]")>>

\* [{"provider":"OpenAI","apiKeyEnvVar":"OPENAI_API_KEY","models":[...]}]
OmittedBaseUrlText ==
    Arr(<< Obj(<< StrMember("provider", "OpenAI"),
                  StrMember("apiKeyEnvVar", "OPENAI_API_KEY"),
                  Member("models", Arr(<<Gpt4ModelText>>)) >>) >>)

\* the same with "baseUrl":""
EmptyBaseUrlText ==
    Arr(<< Obj(<< StrMember("provider", "OpenAI"),
                  StrMember("apiKeyEnvVar", "OPENAI_API_KEY"),
                  StrMember("baseUrl", ""),
                  Member("models", Arr(<<Gpt4ModelText>>)) >>) >>)

\* the same with "baseUrl":"not-a-url"
BadBaseUrlText ==
    Arr(<< Obj(<< StrMember("provider", "OpenAI"),
                  StrMember("apiKeyEnvVar", "OPENAI_API_KEY"),
                  StrMember("baseUrl", "not-a-url"),
                  Member("models", Arr(<<Gpt4ModelText>>)) >>) >>)

\* two providers, the second with two models
TwoProvidersText ==
    Arr(<< Obj(<< StrMember("provider", "OpenAI"),
                  StrMember("apiKeyEnvVar", "OPENAI_API_KEY"),
                  StrMember("baseUrl", "https://api.openai.com/v1"),
                  Member("models", Arr(<<Gpt4ModelText>>)) >>),
           Obj(<< StrMember("provider", "Groq"),
                  StrMember("apiKeyEnvVar", "GROQ_API_KEY"),
                  Member("models", Arr(<<LlamaModelText, Gpt4ModelText>>)) >>) >>)

\* valid, but the keys are in another order and there is a key the schema
\* does not know
ReorderedText ==
    Arr(<< Obj(<< Member("models",
                         Arr(<< Obj(<< Member("supportsTools", <<Tok("false")>>),
                                       StrMember("uiName", "GPT-4o"),
                                       StrMember("apiName", "gpt-4o") >>) >>)),
                  StrMember("note", "mine"),
                  StrMember("apiKeyEnvVar", "OPENAI_API_KEY"),
                  StrMember("provider", "OpenAI") >>) >>)

\* []
EmptyArrayText == Arr(<< >>)

\* [{"provider":"","apiKeyEnvVar":"X","models":[]}]
EmptyFieldsText ==
    Arr(<< Obj(<< StrMember("provider", ""), StrMember("apiKeyEnvVar", "X"),
                  Member("models", Arr(<< >>)) >>) >>)

\* "not json" with its quotes: a JSON string
QuotedStringText == <<Str("not json")>>

\* not json
NotJsonText == <<Tok("word"), Ws, Tok("word")>>

\* [{
TruncatedText == <<Tok("["), Tok("{")>>

\* a single blank
BlankText == <<Ws>>

ImportTexts ==
    { EmptyText, BlankText, NotJsonText, TruncatedText, QuotedStringText,
      EmptyArrayText, EmptyFieldsText, BadBaseUrlText, GroqText, GroqSpacedText,
      OmittedBaseUrlText, EmptyBaseUrlText, TwoProvidersText, ReorderedText }

-----------------------------------------------------------------------------
(* The form *)

\* useForm defaultValues
DefaultModel ==
    [apiName |-> "llama3-8b-8192", uiName |-> "Llama 3 8B", supportsTools |-> TRUE]

DefaultProvider ==
    [provider |-> "Groq", apiKeyEnvVar |-> "GROQ_API_KEY",
     baseUrl |-> "https://api.groq.com/openai/v1", models |-> <<DefaultModel>>]

\* what "Add Model" and "Add Provider" append
NewModel == [apiName |-> "", uiName |-> "", supportsTools |-> FALSE]

\* "Add Provider" appending a filled-in provider
NewProviderFilled ==
    [provider |-> "Groq", apiKeyEnvVar |-> "GROQ_API_KEY", baseUrl |-> "",
     models |-> <<[apiName |-> "llama3-8b-8192", uiName |-> "Llama 3 8B",
                   supportsTools |-> FALSE]>>]

NewProvider ==
    [provider |-> "", apiKeyEnvVar |-> "", baseUrl |-> "", models |-> <<NewModel>>]

\* what the user may type into the inputs
ProviderNameInputs == {"", "Groq"}
ApiKeyEnvVarInputs == {"", "GROQ_API_KEY"}
BaseUrlInputs == {"", "not-a-url", "https://api.groq.com/openai/v1"}
ApiNameInputs == {"", "llama3-8b-8192"}
UiNameInputs == {"", "Llama 3 8B"}

Min2(a, b) == IF a < b THEN a ELSE b
Max2(a, b) == IF a > b THEN a ELSE b

\* useFieldArray's remove(index) for one index: a copy of the array with
\* splice(index, 1) applied.  Array.prototype.splice counts a negative start
\* from the end and clamps a start beyond the end to the length.
RemoveAt(data, index) ==
    LET len == Len(data)
        start == IF index < 0 THEN Max2(len + index, 0) ELSE Min2(index, len)
        count == Min2(1, len - start)
    IN [j \in 1..(len - count) |-> IF j <= start THEN data[j] ELSE data[j + count]]

\* useFieldArray's append(value)
AppendAt(data, value) == Append(data, value)

Ran(op) == /\ lastOp' = op
           /\ steps' = steps + 1

Init ==
    /\ providers = <<DefaultProvider>>
    /\ outputJson = EmptyText
    /\ importJson = EmptyText
    /\ toast = ""
    /\ submitErrors = {}
    /\ lastOp = ""
    /\ steps = 0

\* the import textarea's onChange
SetImportJson(text) ==
    /\ steps < MaxSteps
    /\ text # importJson
    /\ importJson' = text
    /\ Ran("setImportJson")
    /\ UNCHANGED <<providers, outputJson, toast, submitErrors>>

\* handleImport with the form reset before the validation result is looked at
HandleImportResetFirst ==
    /\ steps < MaxSteps
    /\ Ran("handleImport")
    /\ UNCHANGED <<outputJson, importJson, submitErrors>>
    /\ IF IsBlank(importJson)
       THEN /\ toast' = "Import field is empty."
            /\ UNCHANGED providers
       ELSE LET parsed == JSONparse(importJson) IN
            IF ~parsed.ok
            THEN /\ toast' = "Invalid JSON format."
                 /\ UNCHANGED providers
            ELSE LET validation == SafeParse(parsed.value) IN
                 /\ providers' = validation.data
                 /\ toast' = IF validation.success THEN "Import Successful!"
                             ELSE "Invalid JSON structure."

\* handleImport with a syntax error reported as a schema error
HandleImportNoCatch ==
    /\ steps < MaxSteps
    /\ Ran("handleImport")
    /\ UNCHANGED <<outputJson, importJson, submitErrors>>
    /\ IF IsBlank(importJson)
       THEN /\ toast' = "Import field is empty."
            /\ UNCHANGED providers
       ELSE LET parsed == JSONparse(importJson)
                validation == SafeParse(parsed.value)
            IN IF ~parsed.ok \/ ~validation.success
               THEN /\ toast' = "Invalid JSON structure."
                    /\ UNCHANGED providers
               ELSE /\ providers' = validation.data
                    /\ toast' = "Import Successful!"

\* handleImport appending the imported providers to the current ones
HandleImportMerge ==
    /\ steps < MaxSteps
    /\ Ran("handleImport")
    /\ UNCHANGED <<outputJson, importJson, submitErrors>>
    /\ IF IsBlank(importJson)
       THEN /\ toast' = "Import field is empty."
            /\ UNCHANGED providers
       ELSE LET parsed == JSONparse(importJson) IN
            IF ~parsed.ok
            THEN /\ toast' = "Invalid JSON format."
                 /\ UNCHANGED providers
            ELSE LET validation == SafeParse(parsed.value) IN
                 IF ~validation.success
                 THEN /\ toast' = "Invalid JSON structure."
                      /\ UNCHANGED providers
                 ELSE /\ providers' = providers \o validation.data
                      /\ toast' = "Import Successful!"

\* handleImport also writing the generated JSON
HandleImportAlsoGenerates ==
    /\ steps < MaxSteps
    /\ Ran("handleImport")
    /\ UNCHANGED <<importJson, submitErrors>>
    /\ IF IsBlank(importJson)
       THEN /\ toast' = "Import field is empty."
            /\ UNCHANGED <<providers, outputJson>>
       ELSE LET parsed == JSONparse(importJson) IN
            IF ~parsed.ok
            THEN /\ toast' = "Invalid JSON format."
                 /\ UNCHANGED <<providers, outputJson>>
            ELSE LET validation == SafeParse(parsed.value) IN
                 IF ~validation.success
                 THEN /\ toast' = "Invalid JSON structure."
                      /\ UNCHANGED <<providers, outputJson>>
                 ELSE /\ providers' = validation.data
                      /\ outputJson' = JSONstringify(validation.data)
                      /\ toast' = "Import Successful!"

\* handleImport
HandleImport ==
    /\ steps < MaxSteps
    /\ Ran("handleImport")
    /\ UNCHANGED <<outputJson, importJson, submitErrors>>
    /\ IF IsBlank(importJson)
       THEN /\ toast' = "Import field is empty."
            /\ UNCHANGED providers
       ELSE LET parsed == JSONparse(importJson) IN
            IF ~parsed.ok
            THEN /\ toast' = "Invalid JSON format."
                 /\ UNCHANGED providers
            ELSE LET validation == SafeParse(parsed.value) IN
                 IF ~validation.success
                 THEN /\ toast' = "Invalid JSON structure."
                      /\ UNCHANGED providers
                 ELSE /\ providers' = validation.data
                      /\ toast' = "Import Successful!"

\* onSubmit run on the form values whatever the resolver reports
SubmitUnchecked ==
    /\ steps < MaxSteps
    /\ Ran("submit")
    /\ UNCHANGED <<providers, importJson>>
    /\ submitErrors' = Resolver(providers).issues
    /\ outputJson' = JSONstringify(providers)
    /\ toast' = "JSON Generated!"

\* form.handleSubmit(onSubmit): onSubmit runs with the resolver's values only
\* when the resolver reports no error
Submit ==
    /\ steps < MaxSteps
    /\ Ran("submit")
    /\ UNCHANGED <<providers, importJson>>
    /\ LET result == Resolver(providers) IN
       /\ submitErrors' = result.issues
       /\ IF result.success
          THEN /\ outputJson' = JSONstringify(result.data)
               /\ toast' = "JSON Generated!"
          ELSE UNCHANGED <<outputJson, toast>>

\* "Add Provider"
AppendProvider ==
    /\ steps < MaxSteps
    /\ Len(providers) < MaxProviders
    /\ providers' = AppendAt(providers, NewProvider)
    /\ Ran("appendProvider")
    /\ UNCHANGED <<outputJson, importJson, toast, submitErrors>>

\* the provider card's trash button: removeProvider(providerIndex)
RemoveProvider(index) ==
    /\ steps < MaxSteps
    /\ providers' = RemoveAt(providers, index)
    /\ Ran("removeProvider")
    /\ UNCHANGED <<outputJson, importJson, toast, submitErrors>>

\* "Add Model" of provider providerIndex
AppendModel(providerIndex) ==
    /\ steps < MaxSteps
    /\ Len(providers[providerIndex + 1].models) < MaxModels
    /\ providers' = [providers EXCEPT ![providerIndex + 1].models = AppendAt(@, NewModel)]
    /\ Ran("appendModel")
    /\ UNCHANGED <<outputJson, importJson, toast, submitErrors>>

\* the model row's trash button: removeModel(modelIndex)
RemoveModel(providerIndex, modelIndex) ==
    /\ steps < MaxSteps
    /\ providers' = [providers EXCEPT ![providerIndex + 1].models = RemoveAt(@, modelIndex)]
    /\ Ran("removeModel")
    /\ UNCHANGED <<outputJson, importJson, toast, submitErrors>>

\* the value of p with its baseUrl set (the key is created when absent)
WithBaseUrl(p, value) ==
    [provider |-> p.provider, apiKeyEnvVar |-> p.apiKeyEnvVar,
     baseUrl |-> value, models |-> p.models]

\* field.onChange of the inputs providers.N.provider / apiKeyEnvVar / baseUrl
SetProviderField(providerIndex, name, value) ==
    /\ steps < MaxSteps
    /\ LET p == providers[providerIndex + 1] IN
       /\ IF name = "baseUrl" THEN (IF HasBaseUrl(p) THEN p.baseUrl # value ELSE TRUE)
          ELSE p[name] # value
       /\ providers' = [providers EXCEPT ![providerIndex + 1] =
                           IF name = "baseUrl" THEN WithBaseUrl(p, value)
                           ELSE [p EXCEPT ![name] = value]]
    /\ Ran("setField")
    /\ UNCHANGED <<outputJson, importJson, toast, submitErrors>>

\* field.onChange of providers.N.models.M.apiName / uiName / supportsTools
SetModelField(providerIndex, modelIndex, name, value) ==
    /\ steps < MaxSteps
    /\ providers[providerIndex + 1].models[modelIndex + 1][name] # value
    /\ providers' = [providers EXCEPT
                        ![providerIndex + 1].models[modelIndex + 1][name] = value]
    /\ Ran("setField")
    /\ UNCHANGED <<outputJson, importJson, toast, submitErrors>>

ProviderIndexes == 0..(Len(providers) - 1)
ModelIndexes(providerIndex) == 0..(Len(providers[providerIndex + 1].models) - 1)

Next ==
    \/ \E text \in ImportTexts : SetImportJson(text)
    \/ HandleImport
    \/ Submit
    \/ AppendProvider
    \/ \E i \in ProviderIndexes : RemoveProvider(i)
    \/ \E i \in ProviderIndexes : AppendModel(i)
    \/ \E i \in ProviderIndexes : \E j \in ModelIndexes(i) : RemoveModel(i, j)
    \/ \E i \in ProviderIndexes :
          \/ \E v \in ProviderNameInputs : SetProviderField(i, "provider", v)
          \/ \E v \in ApiKeyEnvVarInputs : SetProviderField(i, "apiKeyEnvVar", v)
          \/ \E v \in BaseUrlInputs : SetProviderField(i, "baseUrl", v)
    \/ \E i \in ProviderIndexes : \E j \in ModelIndexes(i) :
          \/ \E v \in ApiNameInputs : SetModelField(i, j, "apiName", v)
          \/ \E v \in UiNameInputs : SetModelField(i, j, "uiName", v)
          \/ \E v \in BOOLEAN : SetModelField(i, j, "supportsTools", v)

Spec == Init /\ [][Next]_vars

-----------------------------------------------------------------------------
(* removeProvider as a function of any integer index *)

OpenAIProvider ==
    [provider |-> "OpenAI", apiKeyEnvVar |-> "OPENAI_API_KEY",
     models |-> <<[apiName |-> "gpt-4o", uiName |-> "GPT-4o", supportsTools |-> FALSE]>>]

ProviderSamples == {DefaultProvider, NewProvider, OpenAIProvider}

RemoveIndexes == (0 - 2)..(MaxProviders + 2)

InitRemove ==
    /\ providers \in UNION {[1..n -> ProviderSamples] : n \in 0..(MaxProviders + 1)}
    /\ outputJson = EmptyText
    /\ importJson = EmptyText
    /\ toast = ""
    /\ submitErrors = {}
    /\ lastOp = ""
    /\ steps = 0

NextRemove == \E index \in RemoveIndexes : RemoveProvider(index)

SpecRemove == InitRemove /\ [][NextRemove]_vars

-----------------------------------------------------------------------------
(* Properties *)

\* what importing `text` puts into the form, and what a submit right after
\* it writes
ImportedConfiguration(text) == SafeParse(JSONparse(text).value).data
SubmitOutput(ps) == JSONstringify(Resolver(ps).data)

\* data without the element at 0-based position index
WithoutIndex(data, index) ==
    [j \in 1..(Len(data) - 1) |-> IF j <= index THEN data[j] ELSE data[j + 1]]

\* text is, up to insignificant whitespace, a valid configuration written with
\* exactly the schema's keys in the schema's order
IsCanonicalText(text) ==
    LET parsed == JSONparse(text) IN
    /\ parsed.ok
    /\ SafeParse(parsed.value).success
    /\ StripWs(text) = JSONstringify(SafeParse(parsed.value).data)

\* ... and has no whitespace at all, as JSON.stringify writes it
IsCompactCanonicalText(text) == IsCanonicalText(text) /\ StripWs(text) = text

\* every field of p but baseUrl satisfies the schema
OtherFieldsValid(p) ==
    /\ p.provider # ""
    /\ p.apiKeyEnvVar # ""
    /\ Len(p.models) >= 1
    /\ \A j \in 1..Len(p.models) : p.models[j].apiName # "" /\ p.models[j].uiName # ""

BaseUrlAcceptable(p) ==
    IF HasBaseUrl(p) THEN p.baseUrl = "" \/ p.baseUrl \in WellFormedUrls ELSE TRUE

\* C1: an import whose text parses as JSON but fails the schema leaves the
\* form's providers exactly as they were.
C1_ImportAtomic ==
    [][(/\ lastOp' = "handleImport"
        /\ JSONparse(importJson).ok
        /\ ~SafeParse(JSONparse(importJson).value).success)
       => (providers' = providers /\ toast' = "Invalid JSON structure.")]_vars

C1_Witness ==
    /\ lastOp = "handleImport"
    /\ importJson = EmptyFieldsText
    /\ toast = "Invalid JSON structure."
    /\ Len(providers) = 2

\* C2 as claimed: every import of text that is not valid JSON reports
\* "Invalid JSON format." and leaves the providers unchanged.
C2_Original ==
    [][(lastOp' = "handleImport" /\ ~JSONparse(importJson).ok)
       => (toast' = "Invalid JSON format." /\ providers' = providers)]_vars

\* C2 amended: an import of text that is not valid JSON never reports
\* "Invalid JSON structure." and leaves the providers unchanged; it reports
\* "Invalid JSON format." unless the text is blank, and "Import field is
\* empty." when it is.
C2_ParseErrorUnlessBlank ==
    [][(lastOp' = "handleImport" /\ ~JSONparse(importJson).ok)
       => (/\ providers' = providers
           /\ toast' # "Invalid JSON structure."
           /\ toast' = IF IsBlank(importJson) THEN "Import field is empty."
                       ELSE "Invalid JSON format.")]_vars

C2_Witness ==
    /\ lastOp = "handleImport"
    /\ importJson = NotJsonText
    /\ toast = "Invalid JSON format."
    /\ providers # <<DefaultProvider>>

C4_OutputOnlyFromValid ==
    /\ [](outputJson = EmptyText
          \/ LET parsed == JSONparse(outputJson) IN
             /\ parsed.ok
             /\ SafeParse(parsed.value).success
             /\ JSONstringify(SafeParse(parsed.value).data) = outputJson)
    /\ [][/\ (lastOp' = "submit" /\ ~Resolver(providers).success)
             => (outputJson' = outputJson /\ toast' = toast /\ submitErrors' # {})
          /\ (lastOp' = "submit" /\ Resolver(providers).success)
             => outputJson' = JSONstringify(providers)]_vars

C4_Witness ==
    /\ lastOp = "submit"
    /\ submitErrors # {}
    /\ outputJson = GroqText
    /\ outputJson # JSONstringify(providers)

\* C5: a submit right after appendProvider fails: it reports an issue on a
\* field of the last provider and generates nothing.
C5_AppendThenSubmitFails ==
    [][(lastOp = "appendProvider" /\ lastOp' = "submit")
       => (/\ \E e \in submitErrors' :
                e.provider = Len(providers) - 1 /\ e.field # ""
           /\ outputJson' = outputJson
           /\ toast' = toast)]_vars

C5_Witness ==
    /\ steps = 2
    /\ lastOp = "submit"
    /\ providers = <<DefaultProvider, NewProvider>>
    /\ \E e \in submitErrors : e.provider = 1 /\ e.field = "provider"
    /\ \A e \in submitErrors : e.provider = 1
    /\ outputJson = EmptyText

\* C6: removeModel removes a provider's last model too, and a submit made
\* while a provider has no model reports "At least one model is required."
\* on that provider's models and generates nothing.
C6_EmptyModelsBlockSubmit ==
    [][/\ \A i \in ProviderIndexes : \A j \in ModelIndexes(i) :
             RemoveModel(i, j)
             => providers'[i + 1].models = WithoutIndex(providers[i + 1].models, j)
       /\ (lastOp' = "submit"
           /\ \E i \in ProviderIndexes : providers[i + 1].models = << >>)
          => (/\ \A i \in ProviderIndexes :
                    providers[i + 1].models = << >>
                    => Issue(i, -1, "models", "At least one model is required.")
                          \in submitErrors'
              /\ outputJson' = outputJson
              /\ toast' = toast)]_vars

C6_Witness ==
    /\ steps = 2
    /\ lastOp = "submit"
    /\ Len(providers) = 1
    /\ providers[1].models = << >>
    /\ submitErrors = {Issue(0, -1, "models", "At least one model is required.")}
    /\ outputJson = EmptyText

\* C7: with no provider left a submit succeeds and writes [], and importing
\* [] succeeds and empties the form.
C7_EmptyListIsValid ==
    [][/\ (lastOp' = "submit" /\ providers = << >>)
          => (toast' = "JSON Generated!" /\ submitErrors' = {}
              /\ outputJson' = <<Tok("["), Tok("]")>>)
       /\ (lastOp' = "handleImport" /\ importJson = EmptyArrayText)
          => (toast' = "Import Successful!" /\ providers' = << >>)]_vars

C7_Witness ==
    /\ steps = 2
    /\ lastOp = "submit"
    /\ providers = << >>
    /\ toast = "JSON Generated!"
    /\ outputJson = <<Tok("["), Tok("]")>>

BaseUrlVariantTexts == {OmittedBaseUrlText, EmptyBaseUrlText}

\* C8 as claimed: the text with baseUrl omitted and the text with baseUrl ""
\* are both imported, give the same providers and, submitted, the same
\* output; a baseUrl that is neither empty nor a URL is an issue on baseUrl.
C8_Original ==
    [][/\ (lastOp' = "handleImport" /\ importJson \in BaseUrlVariantTexts)
          => (/\ toast' = "Import Successful!"
              /\ \A text \in BaseUrlVariantTexts :
                    providers' = ImportedConfiguration(text))
       /\ (lastOp = "handleImport" /\ importJson \in BaseUrlVariantTexts
           /\ lastOp' = "submit")
          => (/\ toast' = "JSON Generated!"
              /\ \A text \in BaseUrlVariantTexts :
                    outputJson' = SubmitOutput(ImportedConfiguration(text)))
       /\ (lastOp' = "submit")
          => \A i \in ProviderIndexes :
                ~BaseUrlAcceptable(providers[i + 1])
                => (/\ \E e \in submitErrors' : e.provider = i /\ e.field = "baseUrl"
                    /\ outputJson' = outputJson)]_vars

\* C8 amended: both texts are imported and both submit, but each keeps its
\* own form (the key stays absent when omitted, "baseUrl":"" stays when
\* given); a submit succeeds when every provider's other fields are valid and
\* its baseUrl is absent, empty or a URL; a baseUrl that is neither empty nor
\* a URL is an issue on that provider's baseUrl and nothing is generated.
C8_BaseUrlEmptyOrOmittedAccepted ==
    [][/\ (lastOp' = "handleImport" /\ importJson \in BaseUrlVariantTexts)
          => (/\ toast' = "Import Successful!"
              /\ JSONstringify(providers') = importJson
              /\ HasBaseUrl(providers'[1]) = (importJson = EmptyBaseUrlText))
       /\ (lastOp = "handleImport" /\ importJson \in BaseUrlVariantTexts
           /\ lastOp' = "submit")
          => (toast' = "JSON Generated!" /\ outputJson' = importJson)
       /\ (lastOp' = "submit"
           /\ \A i \in ProviderIndexes :
                 OtherFieldsValid(providers[i + 1]) /\ BaseUrlAcceptable(providers[i + 1]))
          => (toast' = "JSON Generated!" /\ submitErrors' = {})
       /\ (lastOp' = "submit")
          => \A i \in ProviderIndexes :
                ~BaseUrlAcceptable(providers[i + 1])
                => (/\ \E e \in submitErrors' : e.provider = i /\ e.field = "baseUrl"
                    /\ outputJson' = outputJson)]_vars

C8_Witness ==
    /\ lastOp = "submit"
    /\ importJson = OmittedBaseUrlText
    /\ outputJson = OmittedBaseUrlText
    /\ ~HasBaseUrl(providers[1])

C9_InRangeExact ==
    [][\A index \in ProviderIndexes :
          RemoveProvider(index) => providers' = WithoutIndex(providers, index)]_vars

\* C10: the output changes only in a submit whose validation passes.
C10_OutputChangesOnlyOnSubmit ==
    [][outputJson' # outputJson
       => (lastOp' = "submit" /\ toast' = "JSON Generated!"
           /\ Resolver(providers).success)]_vars

C10_Witness ==
    /\ outputJson = GroqText
    /\ lastOp = "handleImport"
    /\ toast = "Import Successful!"
    /\ outputJson # JSONstringify(providers)

====
